---- MODULE Spec2Model ----
(***************************************************************************)
(* Memo application (03_FASTAPI_ASYNC/02_ASYNC_SQLALCHEMY_MVC_FINAL):      *)
(* signup / login / logout and per-user memo create / list / update /      *)
(* delete over a users table, a memos table and a per-client session.      *)
(*                                                                         *)
(* Spec      : requests served one after another, one action per handler.  *)
(* SpecMemo  : the same handlers without signup, from the state of Spec    *)
(*             in which alice and bob have signed up.                      *)
(* SpecConc  : two requests (signup or update_memo) in flight at once,     *)
(*             interleaving at the handlers' await points.                 *)
(***************************************************************************)
EXTENDS Integers, Sequences, FiniteSets, TLC

\* ------------------------------------------------------------- bounds
MaxMemoId == 2

Usernames == {"alice", "bob"}
Emails == {"a@x.com"}
Passwords == {"pw1", "pw2"}
Salts == {1}
Titles == {"t1", "t2"}
Contents == {"c1", "c2"}
Clients == {"k1"}
MemoIds == 1..MaxMemoId
Tasks == {"r1", "r2"}

\* Python's None: an absent session key, an omitted optional field, no row.
None == "None"
NoRow == [id |-> 0]

VARIABLES
    users,        \* table users: rows in insertion order
    memos,        \* table memos: rows in insertion order
    nextUserId,   \* AUTO_INCREMENT of users.id
    nextMemoId,   \* AUTO_INCREMENT of memos.id
    session,      \* request.session.get("username") of each client's cookie
    last,         \* the request served last and its response (Spec)
    task,         \* the requests in flight (SpecConc)
    commits       \* the requests in flight that committed an update, in commit order

vars == <<users, memos, nextUserId, nextMemoId, session, last, task, commits>>

\* ------------------------------------------------------------- helpers
\* result.scalars().first(): the first row of the result, or None
first(result) == IF result = <<>> THEN NoRow ELSE Head(result)

\* result.scalars().all()
all(result) == result

\* ------------------------------------------------------------- passwords
PwCode == [p \in Passwords |-> IF p = "pw1" THEN 1 ELSE 2]

\* bcrypt digest of a password under a salt (one-way; modelled injective)
Digest(salt, password) == (salt * 31 + PwCode[password] * 17) % 101

\* pwd_context.hash(password): a fresh salt and the digest under it
get_password_hash(password, salt) ==
    [salt |-> salt, digest |-> Digest(salt, password)]

\* pwd_context.verify(plain, hashed): re-hash under the stored salt
verify_password(plain_password, hashed_password) ==
    Digest(hashed_password.salt, plain_password) = hashed_password.digest

\* ------------------------------------------------------------- queries
\* select(User).where(User.username == username) ... .first()
select_user(rows, username) ==
    LET Match(u) == u.username = username IN first(SelectSeq(rows, Match))

\* faulty variant: the memo is fetched by id alone, whoever owns it
select_memo_any_owner(rows, user_id, memo_id) ==
    LET Match(m) == m.id = memo_id IN first(SelectSeq(rows, Match))

\* select(Memo).filter(Memo.user_id == user.id, Memo.id == memo_id) ... .first()
select_memo(rows, user_id, memo_id) ==
    LET Match(m) == m.user_id = user_id /\ m.id = memo_id IN first(SelectSeq(rows, Match))

\* select(Memo).where(Memo.user_id == user.id) ... .all()
select_memos(rows, user_id) ==
    LET Match(m) == m.user_id = user_id IN all(SelectSeq(rows, Match))

\* users.username is declared unique=True: an INSERT of a second row with
\* the same username raises IntegrityError at commit
UniqueViolation(rows, username) == \E i \in 1..Len(rows) : rows[i].username = username

\* ------------------------------------------------------------- responses
Resp(status, kind, text, rows) ==
    [status |-> status, kind |-> kind, text |-> text, rows |-> rows]

NoResp == Resp(0, "none", "", <<>>)

\* schemas.MemoUpdate: title and content are optional (None when omitted)
MemoUpdate(title, content) == [title |-> title, content |-> content]

SignupOk == Resp(200, "message", "signup ok", <<>>)
SignupConflict == Resp(400, "detail", "username taken", <<>>)
SignupFailed == Resp(500, "detail", "signup failed", <<>>)
LoginOk == Resp(200, "message", "login ok", <<>>)
LoginFailed == Resp(401, "detail", "login failed", <<>>)
LogoutOk == Resp(200, "message", "logout ok", <<>>)
NotAuthorized == Resp(401, "detail", "Not authorized", <<>>)
UserNotFound == Resp(404, "detail", "User not found", <<>>)
MemoNotFound == Resp(200, "error", "Memo not found", <<>>)
MemoDeleted == Resp(200, "message", "Memo deleted", <<>>)
ServerError == Resp(500, "detail", "Internal Server Error", <<>>)
MemoBody(m) == Resp(200, "memo", "", <<m>>)
MemoList(ms) == Resp(200, "memos", "", ms)

\* a request in flight: where its coroutine stands and its local variables
Task(pc, op, username, new_user, user, memo_id, memo, db_memo, changed, resp) ==
    [pc |-> pc, op |-> op, username |-> username, new_user |-> new_user,
     user |-> user, memo_id |-> memo_id, memo |-> memo, db_memo |-> db_memo,
     changed |-> changed, resp |-> resp]

IdleTask ==
    Task("idle", "none", None, NoRow, NoRow, 0, MemoUpdate(None, None), NoRow, NoRow, NoResp)

Init ==
    /\ users = <<>>
    /\ memos = <<>>
    /\ nextUserId = 1
    /\ nextMemoId = 1
    /\ session = [c \in Clients |-> None]
    /\ last = [op |-> "none", client |-> None, resp |-> NoResp]
    /\ task = [t \in Tasks |-> IdleTask]
    /\ commits = <<>>

\* ------------------------------------------------------------- unit of work
\* faulty variant: both fields are assigned, supplied or not
assign_all(db_memo, req) ==
    [db_memo EXCEPT !.title = req.title, !.content = req.content]

\* lines 97-100: only the fields the request supplies are assigned
assign(db_memo, req) ==
    [db_memo EXCEPT !.title = IF req.title # None THEN req.title ELSE @,
                    !.content = IF req.content # None THEN req.content ELSE @]

\* The columns the session's flush writes.  SQLAlchemy's unit of work compares
\* each assigned attribute with the value it was loaded with: an attribute
\* whose current value equals the loaded one has no net change and is left
\* out of the UPDATE (no UPDATE at all when nothing changed).
Dirty(loaded, current) ==
    {col \in {"title", "content"} : current[col] # loaded[col]}

\* db.commit() after the assignments: UPDATE memos SET <dirty columns>
\* WHERE id = <db_memo.id>
flush_update(rows, loaded, current) ==
    [i \in 1..Len(rows) |->
        IF rows[i].id = loaded.id
        THEN [rows[i] EXCEPT
                !.title = IF "title" \in Dirty(loaded, current) THEN current.title ELSE @,
                !.content = IF "content" \in Dirty(loaded, current) THEN current.content ELSE @]
        ELSE rows[i]]

\* an UPDATE that matches no row raises StaleDataError out of commit
Stale(rows, loaded, current) ==
    /\ Dirty(loaded, current) # {}
    /\ \A i \in 1..Len(rows) : rows[i].id # loaded.id

\* faulty variant: the DELETE is keyed by the owner, not by the memo
flush_delete_owner(rows, loaded) ==
    LET Keep(m) == m.user_id # loaded.user_id IN SelectSeq(rows, Keep)

\* db.delete(db_memo); db.commit(): DELETE FROM memos WHERE id = <db_memo.id>
flush_delete(rows, loaded) ==
    LET Keep(m) == m.id # loaded.id IN SelectSeq(rows, Keep)

\* db.refresh(obj): reload the row by primary key
refresh(rows, obj) ==
    LET Match(m) == m.id = obj.id IN first(SelectSeq(rows, Match))

\* ------------------------------------------------------------- handlers
Served(op, c, resp) ==
    last' = [op |-> op, client |-> c, resp |-> resp]

\* faulty variant: no existence query; the duplicate is left to the unique index
signup_no_query(c, username, email, password, salt) ==
    LET new_user == [id |-> nextUserId, username |-> username, email |-> email,
                     hashed_password |-> get_password_hash(password, salt)]
    IN  /\ IF UniqueViolation(users, username)
           THEN /\ Served("signup", c, SignupFailed)
                /\ UNCHANGED <<users, nextUserId>>
           ELSE /\ users' = Append(users, new_user)
                /\ nextUserId' = nextUserId + 1
                /\ Served("signup", c, SignupOk)
        /\ UNCHANGED <<memos, nextMemoId, session, task, commits>>

\* POST /signup
signup(c, username, email, password, salt) ==
    LET existing_user == select_user(users, username)
        new_user == [id |-> nextUserId, username |-> username, email |-> email,
                     hashed_password |-> get_password_hash(password, salt)]
    IN  /\ IF existing_user # NoRow
           THEN /\ Served("signup", c, SignupConflict)
                /\ UNCHANGED <<users, nextUserId>>
           ELSE IF UniqueViolation(users, username)
           THEN /\ Served("signup", c, SignupFailed)
                /\ UNCHANGED <<users, nextUserId>>
           ELSE /\ users' = Append(users, new_user)
                /\ nextUserId' = nextUserId + 1
                /\ Served("signup", c, SignupOk)
        /\ UNCHANGED <<memos, nextMemoId, session, task, commits>>

\* faulty variant: the password is not verified
login_no_verify(c, username, password) ==
    LET user == select_user(users, username)
    IN  /\ IF user # NoRow
           THEN /\ session' = [session EXCEPT ![c] = user.username]
                /\ Served("login", c, LoginOk)
           ELSE /\ Served("login", c, LoginFailed)
                /\ UNCHANGED session
        /\ UNCHANGED <<users, memos, nextUserId, nextMemoId, task, commits>>

\* POST /login
login(c, username, password) ==
    LET user == select_user(users, username)
    IN  /\ IF user # NoRow /\ verify_password(password, user.hashed_password)
           THEN /\ session' = [session EXCEPT ![c] = user.username]
                /\ Served("login", c, LoginOk)
           ELSE /\ Served("login", c, LoginFailed)
                /\ UNCHANGED session
        /\ UNCHANGED <<users, memos, nextUserId, nextMemoId, task, commits>>

\* faulty variant: session.pop("username") without default raises KeyError
logout_no_default(c) ==
    /\ IF session[c] = None
       THEN Served("logout", c, ServerError)
       ELSE Served("logout", c, LogoutOk)
    /\ session' = [session EXCEPT ![c] = None]
    /\ UNCHANGED <<users, memos, nextUserId, nextMemoId, task, commits>>

\* POST /logout
logout(c) ==
    /\ session' = [session EXCEPT ![c] = None]
    /\ Served("logout", c, LogoutOk)
    /\ UNCHANGED <<users, memos, nextUserId, nextMemoId, task, commits>>

\* faulty variant: the session check is missing; the user query runs with None
create_memo_no_session_check(c, title, content) ==
    LET username == session[c]
        user == select_user(users, username)
        new_memo == [id |-> nextMemoId, user_id |-> user.id,
                     title |-> title, content |-> content]
        committed == Append(memos, new_memo)
    IN  /\ IF user = NoRow
           THEN /\ Served("create_memo", c, UserNotFound)
                /\ UNCHANGED <<memos, nextMemoId>>
           ELSE /\ nextMemoId <= MaxMemoId
                /\ memos' = committed
                /\ nextMemoId' = nextMemoId + 1
                /\ Served("create_memo", c, MemoBody(refresh(committed, new_memo)))
        /\ UNCHANGED <<users, nextUserId, session, task, commits>>

\* POST /memos/
create_memo(c, title, content) ==
    LET username == session[c]
        user == select_user(users, username)
        new_memo == [id |-> nextMemoId, user_id |-> user.id,
                     title |-> title, content |-> content]
        committed == Append(memos, new_memo)
    IN  /\ IF username = None
           THEN /\ Served("create_memo", c, NotAuthorized)
                /\ UNCHANGED <<memos, nextMemoId>>
           ELSE IF user = NoRow
           THEN /\ Served("create_memo", c, UserNotFound)
                /\ UNCHANGED <<memos, nextMemoId>>
           ELSE /\ nextMemoId <= MaxMemoId
                /\ memos' = committed
                /\ nextMemoId' = nextMemoId + 1
                /\ Served("create_memo", c, MemoBody(refresh(committed, new_memo)))
        /\ UNCHANGED <<users, nextUserId, session, task, commits>>

\* GET /memos/
list_memos(c) ==
    LET username == session[c]
        user == select_user(users, username)
    IN  /\ IF username = None
           THEN Served("list_memos", c, NotAuthorized)
           ELSE IF user = NoRow
           THEN Served("list_memos", c, UserNotFound)
           ELSE Served("list_memos", c, MemoList(select_memos(memos, user.id)))
        /\ UNCHANGED <<users, memos, nextUserId, nextMemoId, session, task, commits>>

\* PUT /memos/{memo_id}
update_memo(c, memo_id, title, content) ==
    LET req == MemoUpdate(title, content)
        username == session[c]
        user == select_user(users, username)
        db_memo == select_memo(memos, user.id, memo_id)
        changed == assign(db_memo, req)
        committed == flush_update(memos, db_memo, changed)
    IN  /\ IF username = None
           THEN /\ Served("update_memo", c, NotAuthorized)
                /\ UNCHANGED memos
           ELSE IF user = NoRow
           THEN /\ Served("update_memo", c, UserNotFound)
                /\ UNCHANGED memos
           ELSE IF db_memo = NoRow
           THEN /\ Served("update_memo", c, MemoNotFound)
                /\ UNCHANGED memos
           ELSE /\ memos' = committed
                /\ Served("update_memo", c, MemoBody(refresh(committed, db_memo)))
        /\ UNCHANGED <<users, nextUserId, nextMemoId, session, task, commits>>

\* faulty variant: a missing memo is answered with HTTP 404
delete_memo_raises(c, memo_id) ==
    LET username == session[c]
        user == select_user(users, username)
        db_memo == select_memo(memos, user.id, memo_id)
    IN  /\ IF username = None
           THEN /\ Served("delete_memo", c, NotAuthorized)
                /\ UNCHANGED memos
           ELSE IF user = NoRow
           THEN /\ Served("delete_memo", c, UserNotFound)
                /\ UNCHANGED memos
           ELSE IF db_memo = NoRow
           THEN /\ Served("delete_memo", c, Resp(404, "detail", "Memo not found", <<>>))
                /\ UNCHANGED memos
           ELSE /\ memos' = flush_delete(memos, db_memo)
                /\ Served("delete_memo", c, MemoDeleted)
        /\ UNCHANGED <<users, nextUserId, nextMemoId, session, task, commits>>

\* DELETE /memos/{memo_id}
delete_memo(c, memo_id) ==
    LET username == session[c]
        user == select_user(users, username)
        db_memo == select_memo(memos, user.id, memo_id)
    IN  /\ IF username = None
           THEN /\ Served("delete_memo", c, NotAuthorized)
                /\ UNCHANGED memos
           ELSE IF user = NoRow
           THEN /\ Served("delete_memo", c, UserNotFound)
                /\ UNCHANGED memos
           ELSE IF db_memo = NoRow
           THEN /\ Served("delete_memo", c, MemoNotFound)
                /\ UNCHANGED memos
           ELSE /\ memos' = flush_delete(memos, db_memo)
                /\ Served("delete_memo", c, MemoDeleted)
        /\ UNCHANGED <<users, nextUserId, nextMemoId, session, task, commits>>

OptTitles == Titles \cup {None}
OptContents == Contents \cup {None}

Next ==
    \/ \E c \in Clients, u \in Usernames, e \in Emails, p \in Passwords, s \in Salts :
          signup(c, u, e, p, s)
    \/ \E c \in Clients, u \in Usernames, p \in Passwords : login(c, u, p)
    \/ \E c \in Clients : logout(c)
    \/ \E c \in Clients, t \in Titles, b \in Contents : create_memo(c, t, b)
    \/ \E c \in Clients : list_memos(c)
    \/ \E c \in Clients, id \in MemoIds, t \in OptTitles, b \in OptContents :
          update_memo(c, id, t, b)
    \/ \E c \in Clients, id \in MemoIds : delete_memo(c, id)

Spec == Init /\ [][Next]_vars

\* ------------------------------------------------------------- memo service
\* a state Spec reaches: alice and bob signed up, nobody logged in
InitMemo ==
    /\ users = <<[id |-> 1, username |-> "alice", email |-> "a@x.com",
                  hashed_password |-> get_password_hash("pw1", 1)],
                 [id |-> 2, username |-> "bob", email |-> "a@x.com",
                  hashed_password |-> get_password_hash("pw2", 1)]>>
    /\ memos = <<>>
    /\ nextUserId = 3
    /\ nextMemoId = 1
    /\ session = [c \in Clients |-> None]
    /\ last = [op |-> "signup", client |-> "k1", resp |-> SignupOk]
    /\ task = [t \in Tasks |-> IdleTask]
    /\ commits = <<>>

\* login, logout and the memo handlers over the two signed-up users
NextMemo ==
    \/ \E c \in Clients, u \in Usernames, p \in Passwords : login(c, u, p)
    \/ \E c \in Clients : logout(c)
    \/ \E c \in Clients, t \in Titles, b \in Contents : create_memo(c, t, b)
    \/ \E c \in Clients : list_memos(c)
    \/ \E c \in Clients, id \in MemoIds, t \in OptTitles, b \in OptContents :
          update_memo(c, id, t, b)
    \/ \E c \in Clients, id \in MemoIds : delete_memo(c, id)

SpecMemo == InitMemo /\ [][NextMemo]_vars

\* ------------------------------------------------------------- requests in flight
\* The same handlers, one action per stretch between two awaits
\* (db.execute, db.commit, db.refresh).  Each request has its own
\* AsyncSession (get_db), so its loaded objects are its own.

\* a state Spec reaches: alice signed up, logged in and created memo 1
InitConc ==
    /\ users = <<[id |-> 1, username |-> "alice", email |-> "a@x.com",
                  hashed_password |-> get_password_hash("pw1", 1)]>>
    /\ memos = <<[id |-> 1, user_id |-> 1, title |-> "t1", content |-> "c1"]>>
    /\ nextUserId = 2
    /\ nextMemoId = 2
    /\ session = [c \in Clients |-> "alice"]
    /\ last = [op |-> "create_memo", client |-> "k1",
               resp |-> MemoBody([id |-> 1, user_id |-> 1, title |-> "t1", content |-> "c1"])]
    /\ task = [t \in Tasks |-> IdleTask]
    /\ commits = <<>>

Store == <<users, memos, nextUserId, nextMemoId>>

Done(t, resp) == task' = [task EXCEPT ![t].pc = "done", ![t].resp = resp]

\* signup, lines 16-23: the existence query, then hash and db.add
signup_execute(t, username, email, password, salt) ==
    LET existing_user == select_user(users, username)
        new_user == [id |-> 0, username |-> username, email |-> email,
                     hashed_password |-> get_password_hash(password, salt)]
    IN  /\ task[t].pc = "idle"
        /\ IF existing_user # NoRow
           THEN task' = [task EXCEPT ![t] =
                    [IdleTask EXCEPT !.pc = "done", !.op = "signup",
                                     !.username = username, !.resp = SignupConflict]]
           ELSE task' = [task EXCEPT ![t] =
                    [IdleTask EXCEPT !.pc = "signup_commit", !.op = "signup",
                                     !.username = username, !.new_user = new_user]]
        /\ UNCHANGED <<Store, session, last, commits>>

\* faulty variant: the exception of db.commit() is swallowed
signup_commit_swallow(t) ==
    /\ task[t].pc = "signup_commit"
    /\ IF UniqueViolation(users, task[t].new_user.username)
       THEN UNCHANGED <<users, nextUserId>>
       ELSE /\ users' = Append(users, [task[t].new_user EXCEPT !.id = nextUserId])
            /\ nextUserId' = nextUserId + 1
    /\ task' = [task EXCEPT ![t].pc = "signup_refresh"]
    /\ UNCHANGED <<memos, nextMemoId, session, last, commits>>

\* signup, lines 25-29: db.commit() flushes the INSERT; any exception is
\* answered with 500
signup_commit(t) ==
    /\ task[t].pc = "signup_commit"
    /\ IF UniqueViolation(users, task[t].new_user.username)
       THEN /\ Done(t, SignupFailed)
            /\ UNCHANGED <<users, nextUserId>>
       ELSE /\ users' = Append(users, [task[t].new_user EXCEPT !.id = nextUserId])
            /\ nextUserId' = nextUserId + 1
            /\ task' = [task EXCEPT ![t].pc = "signup_refresh"]
    /\ UNCHANGED <<memos, nextMemoId, session, last, commits>>

\* signup, lines 31-32: db.refresh(new_user) and the success message
signup_refresh(t) ==
    /\ task[t].pc = "signup_refresh"
    /\ Done(t, SignupOk)
    /\ UNCHANGED <<Store, session, last, commits>>

\* update_memo, lines 85-91: the session's username and the user query
update_execute_user(t, c, memo_id, title, content) ==
    LET username == session[c]
        user == select_user(users, username)
        started == [IdleTask EXCEPT !.op = "update_memo", !.memo_id = memo_id,
                                    !.memo = MemoUpdate(title, content)]
    IN  /\ task[t].pc = "idle"
        /\ IF username = None
           THEN task' = [task EXCEPT ![t] =
                    [started EXCEPT !.pc = "done", !.resp = NotAuthorized]]
           ELSE IF user = NoRow
           THEN task' = [task EXCEPT ![t] =
                    [started EXCEPT !.pc = "done", !.resp = UserNotFound]]
           ELSE task' = [task EXCEPT ![t] =
                    [started EXCEPT !.pc = "update_execute_memo",
                                    !.username = username, !.user = user]]
        /\ UNCHANGED <<Store, session, last, commits>>

\* update_memo, lines 92-100: the memo query and the assignments
update_execute_memo(t) ==
    LET db_memo == select_memo(memos, task[t].user.id, task[t].memo_id)
    IN  /\ task[t].pc = "update_execute_memo"
        /\ IF db_memo = NoRow
           THEN Done(t, MemoNotFound)
           ELSE task' = [task EXCEPT ![t].pc = "update_commit",
                                     ![t].db_memo = db_memo,
                                     ![t].changed = assign(db_memo, task[t].memo)]
        /\ UNCHANGED <<Store, session, last, commits>>

\* update_memo, line 102: db.commit() flushes the UPDATE
update_commit(t) ==
    /\ task[t].pc = "update_commit"
    /\ IF Stale(memos, task[t].db_memo, task[t].changed)
       THEN /\ Done(t, ServerError)
            /\ UNCHANGED <<memos, commits>>
       ELSE /\ memos' = flush_update(memos, task[t].db_memo, task[t].changed)
            /\ commits' = Append(commits, t)
            /\ task' = [task EXCEPT ![t].pc = "update_refresh"]
    /\ UNCHANGED <<users, nextUserId, nextMemoId, session, last>>

\* update_memo, lines 103-104: db.refresh(db_memo) and the memo as body
update_refresh(t) ==
    /\ task[t].pc = "update_refresh"
    /\ Done(t, MemoBody(refresh(memos, task[t].db_memo)))
    /\ UNCHANGED <<Store, session, last, commits>>

\* the response is sent and the request's session is closed
respond(t) ==
    LET Others(x) == x # t
    IN  /\ task[t].pc = "done"
        /\ task' = [task EXCEPT ![t] = IdleTask]
        /\ commits' = SelectSeq(commits, Others)
        /\ UNCHANGED <<Store, session, last>>

NextConc ==
    \/ \E t \in Tasks, u \in Usernames, e \in Emails, p \in Passwords, s \in Salts :
          signup_execute(t, u, e, p, s)
    \/ \E t \in Tasks : signup_commit(t)
    \/ \E t \in Tasks : signup_refresh(t)
    \/ \E t \in Tasks, c \in Clients, id \in MemoIds, a \in OptTitles, b \in OptContents :
          update_execute_user(t, c, id, a, b)
    \/ \E t \in Tasks : update_execute_memo(t)
    \/ \E t \in Tasks : update_commit(t)
    \/ \E t \in Tasks : update_refresh(t)
    \/ \E t \in Tasks : respond(t)

SpecConc == InitConc /\ [][NextConc]_vars

\* ------------------------------------------------------------- properties
MemoOps == {"create_memo", "list_memos", "update_memo", "delete_memo"}

\* the ids of the stored users that carry a username
IdsOf(rows, username) ==
    {rows[i].id : i \in {j \in 1..Len(rows) : rows[j].username = username}}

\* the rows of a table whose owner is (or is not) among a set of user ids
OwnedBy(rows, ids) == LET Mine(m) == m.user_id \in ids IN SelectSeq(rows, Mine)
NotOwnedBy(rows, ids) == LET Theirs(m) == m.user_id \notin ids IN SelectSeq(rows, Theirs)

Owns(rows, ids, memo_id) ==
    \E i \in 1..Len(rows) : rows[i].id = memo_id /\ rows[i].user_id \in ids

\* C1: a memo request whose session names user B returns only memos owned
\* by B and leaves every memo owned by another user exactly as it was.
C1_OwnershipIsolation ==
    [][\A c \in Clients :
        LET B == session[c]
            Bids == IdsOf(users, B)
        IN  (B # None /\ last'.client = c /\ last'.op \in MemoOps) =>
              /\ NotOwnedBy(memos', Bids) = NotOwnedBy(memos, Bids)
              /\ \A j \in 1..Len(last'.resp.rows) : last'.resp.rows[j].user_id \in Bids
      ]_vars

\* a session of user B has met a memo of user A and asked to change it
C1_Witness ==
    /\ last.op \in {"update_memo", "delete_memo"}
    /\ last.resp = MemoNotFound
    /\ session[last.client] # None
    /\ \E i \in 1..Len(memos) :
          memos[i].user_id \notin IdsOf(users, session[last.client])

\* C2: signup with a stored username answers 400 and stores nothing; signup
\* with a new username appends exactly one user of that name and answers
\* the success message.
C2_Signup ==
    [][\A c \in Clients, u \in Usernames, e \in Emails, p \in Passwords, s \in Salts :
        (last'.op = "signup" /\ signup(c, u, e, p, s)) =>
            IF IdsOf(users, u) # {}
            THEN /\ last'.resp = SignupConflict
                 /\ last'.resp.status = 400
                 /\ users' = users
            ELSE /\ last'.resp = SignupOk
                 /\ Len(users') = Len(users) + 1
                 /\ SubSeq(users', 1, Len(users)) = users
                 /\ users'[Len(users')].username = u
                 /\ Cardinality(IdsOf(users', u)) = 1
      ]_vars

C2_Witness ==
    /\ last.op = "signup"
    /\ last.resp = SignupConflict
    /\ Len(users) = 1

\* C3: login answers success iff a stored user has the username and the
\* password verifies against that user's hash; on success the session names
\* the username, on failure (401) the session is as before.
C3_Login ==
    [][\A c \in Clients, u \in Usernames, p \in Passwords :
        (last'.op = "login" /\ login(c, u, p)) =>
            LET good == \E i \in 1..Len(users) :
                            /\ users[i].username = u
                            /\ verify_password(p, users[i].hashed_password)
            IN  /\ (last'.resp = LoginOk) <=> good
                /\ good => session' = [session EXCEPT ![c] = u]
                /\ ~good => last'.resp.status = 401 /\ session' = session
      ]_vars

\* a stored user was refused for a wrong password while a session was open
C3_Witness ==
    /\ last.op = "login"
    /\ last.resp = LoginFailed
    /\ session[last.client] # None
    /\ Len(users) > 0

\* C4: a memo request on a session without username answers 401 and leaves
\* users and memos as they were.
C4_Unauthenticated ==
    [][\A c \in Clients :
        (session[c] = None /\ last'.client = c /\ last'.op \in MemoOps) =>
            /\ last'.resp.status = 401
            /\ users' = users
            /\ memos' = memos
      ]_vars

C4_Witness ==
    /\ last.op \in MemoOps
    /\ last.resp = NotAuthorized
    /\ Len(memos) > 0

\* C5: update_memo by the owner writes exactly the supplied fields of that
\* memo; its id and user_id and every other memo stay as they were.
C5_PartialUpdate ==
    [][last'.op = "update_memo" =>
        \A c \in Clients :
            LET ids == IdsOf(users, session[c])
            IN  \A id \in {x \in MemoIds : Owns(memos, ids, x)} :
                \A t \in OptTitles, b \in OptContents :
                    update_memo(c, id, t, b) =>
                        /\ Len(memos') = Len(memos)
                        /\ \A i \in 1..Len(memos) :
                              IF memos[i].id = id
                              THEN /\ memos'[i].id = memos[i].id
                                   /\ memos'[i].user_id = memos[i].user_id
                                   /\ memos'[i].title = (IF t = None THEN memos[i].title ELSE t)
                                   /\ memos'[i].content = (IF b = None THEN memos[i].content ELSE b)
                                   /\ last'.resp = MemoBody(memos'[i])
                              ELSE memos'[i] = memos[i]
      ]_vars

\* an update that supplied one field only has changed a memo next to another
C5_Witness ==
    /\ last.op = "update_memo"
    /\ last.resp.kind = "memo"
    /\ Len(memos) = 2
    /\ last.resp.rows[1].title = "t2"
    /\ last.resp.rows[1].content = "c1"

\* the number of rows of a table that carry an id
CountId(rows, memo_id) == Cardinality({i \in 1..Len(rows) : rows[i].id = memo_id})

\* C6: after create_memo returns memo m, the owner's list holds exactly one
\* row with m's id, carrying the given title and content, after the rows it
\* held before; list_memos answers the owner's rows; after delete_memo of an
\* id succeeds the owner's list holds no row with that id and its other rows
\* are as before.
C6_RoundTrip ==
    [][\A c \in Clients :
        LET ids == IdsOf(users, session[c])
            mine == OwnedBy(memos, ids)
            mineAfter == OwnedBy(memos', ids)
        IN  /\ \A t \in Titles, b \in Contents :
                 (/\ last'.op = "create_memo"
                  /\ last'.resp.kind = "memo"
                  /\ create_memo(c, t, b)) =>
                    LET m == last'.resp.rows[1]
                    IN  /\ m.title = t /\ m.content = b /\ m.user_id \in ids
                        /\ CountId(memos, m.id) = 0
                        /\ CountId(mineAfter, m.id) = 1
                        /\ mineAfter = Append(mine, m)
            /\ (last'.resp.kind = "memos" /\ list_memos(c)) =>
                    /\ last'.resp.rows = mine
                    /\ \A i \in 1..Len(mine) : CountId(last'.resp.rows, mine[i].id) = 1
            /\ \A id \in MemoIds :
                 (last'.resp = MemoDeleted /\ delete_memo(c, id)) =>
                    LET Other(m) == m.id # id
                    IN  /\ CountId(mineAfter, id) = 0
                        /\ mineAfter = SelectSeq(mine, Other)
                        /\ Len(mineAfter) = Len(mine) - 1
      ]_vars

\* a memo was created, and later deleted, beside another memo of the owner
C6_Witness ==
    /\ last.op = "delete_memo"
    /\ last.resp = MemoDeleted
    /\ session[last.client] # None
    /\ Len(OwnedBy(memos, IdsOf(users, session[last.client]))) = 1
    /\ nextMemoId = 3

\* C7: delete_memo of an owned memo answers the success message and removes
\* the row, so that the same delete again finds nothing; update_memo and
\* delete_memo with an id of no memo of the session's user answer status 200
\* with {error: "Memo not found"} and change nothing.
C7_NotFoundPayload ==
    [][last'.op \in {"update_memo", "delete_memo"} =>
        \A c \in Clients :
            LET ids == IdsOf(users, session[c])
                NotFound == /\ last'.resp.status = 200
                            /\ last'.resp.kind = "error"
                            /\ last'.resp.text = "Memo not found"
                            /\ users' = users
                            /\ memos' = memos
            IN  (session[c] # None /\ ids # {}) =>
                  /\ \A id \in MemoIds :
                        (last'.op = "delete_memo" /\ delete_memo(c, id)) =>
                            IF Owns(memos, ids, id)
                            THEN /\ last'.resp = MemoDeleted
                                 /\ CountId(memos', id) = 0
                                 /\ ~Owns(memos', ids, id)
                            ELSE NotFound
                  /\ \A id \in {x \in MemoIds : ~Owns(memos, ids, x)} :
                        \A t \in OptTitles, b \in OptContents :
                            (last'.op = "update_memo" /\ update_memo(c, id, t, b))
                                => NotFound
      ]_vars

\* the second delete of a memo: its id was assigned, no row carries it
C7_Witness ==
    /\ last.op = "delete_memo"
    /\ last.resp = MemoNotFound
    /\ nextMemoId > 1
    /\ CountId(memos, 1) = 0

\* C8: logout answers success whatever the session held, leaves the session
\* without username and users and memos as they were; a session without
\* username gains one only by a successful login on it, and until then every
\* memo request on it answers 401.
C8_Logout ==
    [][\A c \in Clients :
        /\ (last'.op = "logout" /\ logout(c)) =>
              /\ last'.resp = LogoutOk
              /\ session'[c] = None
              /\ users' = users
              /\ memos' = memos
        /\ (session[c] = None /\ session'[c] # None) =>
              /\ last'.op = "login"
              /\ last'.client = c
              /\ last'.resp = LoginOk
        /\ (session[c] = None /\ last'.client = c /\ last'.op \in MemoOps) =>
              /\ last'.resp.status = 401
              /\ session'[c] = None
      ]_vars

\* a memo request was refused after memos had been created on the session
C8_Witness ==
    /\ last.op \in MemoOps
    /\ last.resp = NotAuthorized
    /\ session[last.client] = None
    /\ Len(memos) > 0
    /\ Len(users) = 2

\* ------------------------------------------------------------- concurrency
\* C9: no two stored users share a username, and of two signups in flight
\* for one username at most one answers the success message.
C9_UniqueUsernames ==
    /\ \A u \in Usernames :
          Cardinality({i \in 1..Len(users) : users[i].username = u}) <= 1
    /\ \A t1, t2 \in Tasks :
          (/\ t1 # t2
           /\ task[t1].op = "signup" /\ task[t2].op = "signup"
           /\ task[t1].username = task[t2].username) =>
              ~(/\ task[t1].pc \in {"signup_refresh", "done"}
                /\ task[t2].pc \in {"signup_refresh", "done"}
                /\ task[t1].resp # SignupConflict /\ task[t1].resp # SignupFailed
                /\ task[t2].resp # SignupConflict /\ task[t2].resp # SignupFailed)

\* two signups for one username both passed the existence query; one was
\* stored and the other's commit failed
C9_Witness ==
    \E t1, t2 \in Tasks :
        /\ t1 # t2
        /\ task[t1].op = "signup" /\ task[t2].op = "signup"
        /\ task[t1].username = task[t2].username
        /\ task[t1].resp = SignupOk
        /\ task[t2].resp = SignupFailed

\* C10: when two update_memo requests of the owner for one memo have both
\* committed, neither failed, every field the later committer supplied holds
\* its value, and the memo's id and user_id are as loaded.
C10_LastCommitWins ==
    \A t1, t2 \in Tasks :
        (/\ commits = <<t1, t2>>
         /\ task[t1].memo_id = task[t2].memo_id) =>
            \E i \in 1..Len(memos) :
                /\ memos[i].id = task[t2].memo_id
                /\ memos[i].user_id = task[t2].db_memo.user_id
                /\ task[t2].memo.title # None => memos[i].title = task[t2].memo.title
                /\ task[t2].memo.content # None => memos[i].content = task[t2].memo.content
                /\ task[t1].resp # ServerError /\ task[t2].resp # ServerError

====
